---- MODULE Spec2Model ----
(***************************************************************************)
(* Model of the resilient external-call protection layer of ComplianceNav: *)
(* utils/rate_limiter.py (RateLimiter, CircuitBreaker), utils/cache.py      *)
(* (PerformanceCache) and integrations/gemini_client.py                    *)
(* (GeminiClient.generate_response, which composes the three).             *)
(*                                                                         *)
(* Time is time.time() sampled on whole seconds.  The clock starts at 1,   *)
(* so that the value 0 stands for every falsy last_failure_time (None).    *)
(***************************************************************************)
EXTENDS Integers, Sequences, FiniteSets, TLC

\* ------------------------------------------------------------------ bounds
\* Clock advances explored in one behaviour.
MaxTicks == 4
\* Largest cost passed to is_allowed.
MaxCost == 2
\* Largest requests_per_minute / burst_allowance of an explored RateLimitConfig.
MaxRpm == 3
MaxBurst == 3
\* Largest thresholds of an explored CircuitBreakerConfig.
MaxFailureThreshold == 2
MaxHalfOpenCalls == 2
MaxSuccessThreshold == 2
\* Number of action invocations explored in one behaviour.
MaxActionCalls == 4
\* Largest ttl of an explored PerformanceCache.
MaxTtl == 2
\* Clock advances explored in one behaviour of generate_response.
MaxGCTicks == 2

\* ------------------------------------------------------- program constants
MinuteWindow == 60
HourWindow == 3600
\* last_failure_time = None (and every other falsy value)
NoneTime == 0

VARIABLES
    now,                \* time.time()
    ticks,              \* number of clock advances so far
    \* ---- RateLimiter
    rl_config,          \* RateLimitConfig
    tokens,
    last_refill,
    minute_requests,
    hour_requests,
    decision,           \* what the latest is_allowed returned
    admitted,           \* history: admission times of the last hour
    first_call,         \* history: time of the first is_allowed call, while its minute lasts
    th_pc,              \* per thread: its position inside is_allowed
    th_now,             \* per thread inside is_allowed: its local variable now
    \* ---- ProductionAPIManager
    registry,           \* self.rate_limiters / self.circuit_breakers: name -> instance
    reg_pc,             \* per thread: its position inside get_rate_limiter / get_circuit_breaker
    reg_arg,            \* per thread inside a getter: which dict and which service_name
    reg_got,            \* history, per thread: the instance each getter call returned to it
    reg_made,           \* history: the instances constructed so far, with their configs
    \* ---- CircuitBreaker
    cb_config,          \* CircuitBreakerConfig
    state,
    failure_count,
    success_count,
    last_failure_time,
    half_open_calls,
    pc,                 \* per caller: "idle" | "awaiting" (inside await func()) | "direct"
    outcome,            \* how the latest call() that ended did end: "returned", or what it raised
    admitted_in,        \* history, per caller awaiting: breaker state when func was invoked
    action_calls,       \* history: how many times func was invoked
    closed_history,     \* history: outcomes completed since the breaker was last CLOSED
    episode_successes,  \* history: successes completed in the current half-open episode
    \* ---- PerformanceCache
    cache_ttl,          \* self.ttl
    memory_cache,       \* self.memory_cache: key -> (data, timestamp)
    file_cache,         \* the <key>.cache files of cache_dir: key -> (data, timestamp)
    get_result,         \* what the latest get_api_response returned, and for which prompt hash
    cleared_count,      \* what the latest clear_expired_cache returned
    latest_set,         \* history: prompt hash -> (data, timestamp) of its latest set_api_response
    cache_error,        \* what the latest cache operation raised to its caller ("none": it returned)
    file_bytes,         \* the blocks of one <key>.cache file, as its writers' write() calls left them
    fw_pc,              \* per writer thread: its position inside set_api_response
    fr_pc,              \* the reader thread's position inside get_api_response
    fw_read,            \* what the reader's latest get_api_response returned, as blocks
    \* ---- GeminiClient.generate_response
    gc_req,             \* per task awaiting the API: the request it is serving
    gc_result,          \* how the latest generate_response that ended did end
    keys_used           \* history, per request: the cache keys it was read and written under

rl_vars == <<rl_config, tokens, last_refill, minute_requests, hour_requests, decision, admitted,
             first_call>>
reg_vars == <<registry, reg_pc, reg_arg, reg_got, reg_made>>
th_vars == <<th_pc, th_now, reg_vars>>
cb_vars == <<cb_config, state, failure_count, success_count, last_failure_time,
             half_open_calls, pc, outcome, admitted_in, action_calls, closed_history,
             episode_successes>>
io_vars == <<cache_error, file_bytes, fw_pc, fr_pc, fw_read>>
pc_vars == <<cache_ttl, memory_cache, file_cache, get_result, cleared_count, latest_set, io_vars>>
gc_vars == <<gc_req, gc_result, keys_used>>
clock_vars == <<now, ticks>>
vars == <<clock_vars, rl_vars, th_vars, cb_vars, pc_vars, gc_vars>>

\* ------------------------------------------------------------ helpers
Min2(a, b) == IF a <= b THEN a ELSE b

RECURSIVE SeqMin(_)
SeqMin(s) == IF Len(s) = 1 THEN s[1] ELSE Min2(s[1], SeqMin(Tail(s)))

\* ================================================================
\* RateLimiter
\* ================================================================
\* The explored RateLimitConfig values (the dataclass accepts any integers).
RateLimitConfigs ==
    [requests_per_minute : (MaxRpm - 1)..MaxRpm,
     requests_per_hour   : {MaxRpm + 1},
     burst_allowance     : (MaxBurst - 1)..MaxBurst,
     cooldown_seconds    : {30}]

\* Clock advances between limiter calls (seconds): below, at and above the
\* minute window, and up to the hour window (1 + 59 = 60, 60 + 3540 = 3600).
RLTickSteps == {1, 59, 3540}

\* The interval of a caller that polls is_allowed (seconds): shorter than the
\* 20 and 30 seconds one token takes at 3 and 2 requests per minute.
RLPTickSteps == {19}

\* Faulty variant of _cleanup_old_requests: forgets requests after one second.
cleanup_old_requests_short(requests, t, window) ==
    SelectSeq(requests, LAMBDA r : r > t - 1)

\* RateLimiter._cleanup_old_requests: the comprehension kept for one window.
cleanup_old_requests(requests, t, window) ==
    SelectSeq(requests, LAMBDA r : r > t - window)

\* Python's int(a / b) for b > 0: the quotient truncated toward zero.
IntTrunc(a, b) == IF a >= 0 THEN a \div b ELSE -((-a) \div b)

\* Faulty variant of _refill_tokens: the min() with burst_allowance is missing.
refill_tokens_uncapped(tok, last, t, cfg) ==
    tok + IntTrunc((t - last) * cfg.requests_per_minute, 60)

\* Faulty variant of _refill_tokens: the tokens still in the bucket are forgotten.
refill_tokens_forgetful(tok, last, t, cfg) ==
    Min2(cfg.burst_allowance, IntTrunc((t - last) * cfg.requests_per_minute, 60))

\* RateLimiter._refill_tokens: the new token count.
refill_tokens(tok, last, t, cfg) ==
    LET time_passed   == t - last
        tokens_to_add == IntTrunc(time_passed * cfg.requests_per_minute, 60)
    IN  Min2(cfg.burst_allowance, tok + tokens_to_add)

\* first_call once the minute that began with the first call is over.
WindowOver == -1

\* The history of the first call, after a call made now.
NoteCall ==
    first_call' = IF first_call = NoneTime THEN now
                  ELSE IF first_call # WindowOver /\ now - first_call >= MinuteWindow
                  THEN WindowOver
                  ELSE first_call

\* The admission history after an admission at time t.
NoteAdmission(t) ==
    admitted' = Append(SelectSeq(admitted, LAMBDA a : t - a < HourWindow), t)

\* Faulty variant of is_allowed: the bucket is refilled before the windows are
\* checked, so a call denied on a window moves tokens and last_refill.
RateLimiter_is_allowed_refill_first(cost) ==
    LET mr == cleanup_old_requests(minute_requests, now, MinuteWindow)
        hr == cleanup_old_requests(hour_requests, now, HourWindow)
        tk == refill_tokens(tokens, last_refill, now, rl_config)
        verdict == IF Len(mr) >= rl_config.requests_per_minute THEN "minute_limit_exceeded"
                   ELSE IF Len(hr) >= rl_config.requests_per_hour THEN "hour_limit_exceeded"
                   ELSE IF tk < cost THEN "burst_limit_exceeded"
                   ELSE "allowed"
    IN  /\ minute_requests' = IF verdict = "allowed" THEN Append(mr, now) ELSE mr
        /\ hour_requests' = IF verdict = "allowed" THEN Append(hr, now) ELSE hr
        /\ decision' = [allowed |-> verdict = "allowed", reason |-> verdict,
                        retry_after |-> IF verdict = "minute_limit_exceeded"
                                        THEN 60 - (now - SeqMin(mr))
                                        ELSE IF verdict = "hour_limit_exceeded"
                                        THEN 3600 - (now - SeqMin(hr))
                                        ELSE IF verdict = "burst_limit_exceeded"
                                        THEN rl_config.cooldown_seconds
                                        ELSE 0]
        /\ tokens' = IF verdict = "allowed" THEN tk - cost ELSE tk
        /\ last_refill' = now
        /\ IF verdict = "allowed" THEN NoteAdmission(now) ELSE UNCHANGED admitted
        /\ NoteCall
        /\ UNCHANGED rl_config

\* The body of RateLimiter.is_allowed(cost): what it does to the limiter.
RateLimiter_is_allowed(cost) ==
    LET mr == cleanup_old_requests(minute_requests, now, MinuteWindow)
        hr == cleanup_old_requests(hour_requests, now, HourWindow)
        tk == refill_tokens(tokens, last_refill, now, rl_config)
    IN  /\ minute_requests' = IF Len(mr) >= rl_config.requests_per_minute
                                 \/ Len(hr) >= rl_config.requests_per_hour
                                 \/ tk < cost
                              THEN mr ELSE Append(mr, now)
        /\ hour_requests' = IF Len(mr) >= rl_config.requests_per_minute
                               \/ Len(hr) >= rl_config.requests_per_hour
                               \/ tk < cost
                            THEN hr ELSE Append(hr, now)
        /\ IF Len(mr) >= rl_config.requests_per_minute
           THEN /\ decision' = [allowed |-> FALSE, reason |-> "minute_limit_exceeded",
                                retry_after |-> 60 - (now - SeqMin(mr))]
                /\ UNCHANGED <<tokens, last_refill, admitted>>
           ELSE IF Len(hr) >= rl_config.requests_per_hour
           THEN /\ decision' = [allowed |-> FALSE, reason |-> "hour_limit_exceeded",
                                retry_after |-> 3600 - (now - SeqMin(hr))]
                /\ UNCHANGED <<tokens, last_refill, admitted>>
           ELSE IF tk < cost
           THEN /\ decision' = [allowed |-> FALSE, reason |-> "burst_limit_exceeded",
                                retry_after |-> rl_config.cooldown_seconds]
                /\ tokens' = tk
                /\ last_refill' = now
                /\ UNCHANGED admitted
           ELSE /\ decision' = [allowed |-> TRUE, reason |-> "allowed", retry_after |-> 0]
                /\ tokens' = tk - cost
                /\ last_refill' = now
                /\ NoteAdmission(now)
        /\ NoteCall
        /\ UNCHANGED rl_config

\* RateLimiter.is_allowed(cost), one atomic step (the coroutine never awaits).
is_allowed(cost) ==
    /\ RateLimiter_is_allowed(cost)
    /\ UNCHANGED <<clock_vars, th_vars, cb_vars, pc_vars, gc_vars>>

\* time.time() moves on between two limiter steps.
TickRL(d) ==
    /\ ticks < MaxTicks
    /\ now' = now + d
    /\ ticks' = ticks + 1
    /\ UNCHANGED <<rl_vars, th_vars, cb_vars, pc_vars, gc_vars>>

\* ---------------------------------------------------------------
\* is_allowed run by threads.  ui/streamlit_app.py (lines 901-937) runs the
\* workflow of every browser session on that session's own script thread and
\* event loop, and all of them share the limiter of api_manager: the
\* statements of is_allowed of two threads interleave.  No statement of
\* is_allowed takes a lock.
\* ---------------------------------------------------------------
Threads == {"t1", "t2"}

\* Clock advances between two statements of the threads (seconds).
RLTTickSteps == {59}

\* Lines 47-50: now = time.time(); self._cleanup_old_requests(now).
th_cleanup(t) ==
    /\ th_pc[t] = "idle"
    /\ th_pc' = [th_pc EXCEPT ![t] = "cleaned"]
    /\ th_now' = [th_now EXCEPT ![t] = now]
    /\ minute_requests' = cleanup_old_requests(minute_requests, now, MinuteWindow)
    /\ hour_requests' = cleanup_old_requests(hour_requests, now, HourWindow)
    /\ NoteCall
    /\ UNCHANGED <<rl_config, tokens, last_refill, decision, admitted>>
    /\ UNCHANGED <<clock_vars, reg_vars, cb_vars, pc_vars, gc_vars>>

\* Lines 53-65: the two window checks.
th_check_windows(t) ==
    /\ th_pc[t] = "cleaned"
    /\ IF Len(minute_requests) >= rl_config.requests_per_minute
       THEN /\ decision' = [allowed |-> FALSE, reason |-> "minute_limit_exceeded",
                            retry_after |-> 60 - (th_now[t] - SeqMin(minute_requests))]
            /\ th_pc' = [th_pc EXCEPT ![t] = "idle"]
            /\ th_now' = [th_now EXCEPT ![t] = NoneTime]
       ELSE IF Len(hour_requests) >= rl_config.requests_per_hour
       THEN /\ decision' = [allowed |-> FALSE, reason |-> "hour_limit_exceeded",
                            retry_after |-> 3600 - (th_now[t] - SeqMin(hour_requests))]
            /\ th_pc' = [th_pc EXCEPT ![t] = "idle"]
            /\ th_now' = [th_now EXCEPT ![t] = NoneTime]
       ELSE /\ th_pc' = [th_pc EXCEPT ![t] = "checked"]
            /\ UNCHANGED <<decision, th_now>>
    /\ UNCHANGED <<rl_config, tokens, last_refill, minute_requests, hour_requests, admitted,
                   first_call>>
    /\ UNCHANGED <<clock_vars, reg_vars, cb_vars, pc_vars, gc_vars>>

\* Line 68: self._refill_tokens(now).
th_refill(t) ==
    /\ th_pc[t] = "checked"
    /\ tokens' = refill_tokens(tokens, last_refill, th_now[t], rl_config)
    /\ last_refill' = th_now[t]
    /\ th_pc' = [th_pc EXCEPT ![t] = "refilled"]
    /\ UNCHANGED <<rl_config, minute_requests, hour_requests, decision, admitted, first_call,
                   th_now>>
    /\ UNCHANGED <<clock_vars, reg_vars, cb_vars, pc_vars, gc_vars>>

\* Lines 70-75: if self.tokens < cost (cost is the default, 1).
th_check_tokens(t) ==
    /\ th_pc[t] = "refilled"
    /\ IF tokens < 1
       THEN /\ decision' = [allowed |-> FALSE, reason |-> "burst_limit_exceeded",
                            retry_after |-> rl_config.cooldown_seconds]
            /\ th_pc' = [th_pc EXCEPT ![t] = "idle"]
            /\ th_now' = [th_now EXCEPT ![t] = NoneTime]
       ELSE /\ th_pc' = [th_pc EXCEPT ![t] = "admitting"]
            /\ UNCHANGED <<decision, th_now>>
    /\ UNCHANGED <<rl_config, tokens, last_refill, minute_requests, hour_requests, admitted,
                   first_call>>
    /\ UNCHANGED <<clock_vars, reg_vars, cb_vars, pc_vars, gc_vars>>

\* Lines 78-86: the token is taken, the request recorded, True returned.
th_admit(t) ==
    /\ th_pc[t] = "admitting"
    /\ tokens' = tokens - 1
    /\ minute_requests' = Append(minute_requests, th_now[t])
    /\ hour_requests' = Append(hour_requests, th_now[t])
    /\ decision' = [allowed |-> TRUE, reason |-> "allowed", retry_after |-> 0]
    /\ NoteAdmission(th_now[t])
    /\ th_pc' = [th_pc EXCEPT ![t] = "idle"]
    /\ th_now' = [th_now EXCEPT ![t] = NoneTime]
    /\ UNCHANGED <<rl_config, last_refill, first_call>>
    /\ UNCHANGED <<clock_vars, reg_vars, cb_vars, pc_vars, gc_vars>>

\* ================================================================
\* ProductionAPIManager: the registry of limiters and breakers
\* ================================================================
\* self.rate_limiters and self.circuit_breakers
RegDicts == {"rate_limiters", "circuit_breakers"}

\* The service names asked for: one with a policy of its own, one without.
ServiceNames == {"gemini_api", "billing"}

\* Instances constructed in one behaviour.
MaxInstances == 3

\* service_name not in the dict.
NoInstance == 0

\* No getter is being run.
NoArg == [dict |-> "none", name |-> "none"]

\* ProductionAPIManager.__init__: the default configurations.
default_rate_config ==
    [requests_per_minute |-> 50, requests_per_hour |-> 800,
     burst_allowance |-> 8, cooldown_seconds |-> 30]

default_circuit_config ==
    [failure_threshold |-> 3, recovery_timeout |-> 45,
     half_open_max_calls |-> 2, success_threshold |-> 2]

\* _get_rate_config, for the names asked for
get_rate_config(name) ==
    IF name = "gemini_api"
    THEN [requests_per_minute |-> 30, requests_per_hour |-> 500,
          burst_allowance |-> 5, cooldown_seconds |-> 45]
    ELSE default_rate_config

\* _get_circuit_config, for the names asked for
get_circuit_config(name) ==
    IF name = "gemini_api"
    THEN [failure_threshold |-> 2, recovery_timeout |-> 120,
          half_open_max_calls |-> 1, success_threshold |-> 1]
    ELSE default_circuit_config

\* get_rate_limiter / get_circuit_breaker of thread t, line 222 / 229:
\* if service_name not in self.<dict>.
reg_check(t, dict, name) ==
    /\ reg_pc[t] = "idle"
    /\ registry[dict][name] = NoInstance => Len(reg_made) < MaxInstances
    /\ reg_pc' = [reg_pc EXCEPT ![t] = IF registry[dict][name] = NoInstance
                                      THEN "missing" ELSE "found"]
    /\ reg_arg' = [reg_arg EXCEPT ![t] = [dict |-> dict, name |-> name]]
    /\ UNCHANGED <<registry, reg_got, reg_made>>
    /\ UNCHANGED <<th_pc, th_now>>
    /\ UNCHANGED <<clock_vars, rl_vars, cb_vars, pc_vars, gc_vars>>

\* Lines 223-224 / 230-231: the config is looked up, the instance constructed
\* and stored under the name.
reg_store(t) ==
    /\ reg_pc[t] = "missing"
    /\ reg_pc' = [reg_pc EXCEPT ![t] = "found"]
    /\ reg_made' = Append(reg_made,
                          [dict |-> reg_arg[t].dict, name |-> reg_arg[t].name,
                           config |-> IF reg_arg[t].dict = "rate_limiters"
                                      THEN get_rate_config(reg_arg[t].name)
                                      ELSE get_circuit_config(reg_arg[t].name)])
    /\ registry' = [registry EXCEPT ![reg_arg[t].dict][reg_arg[t].name] = Len(reg_made) + 1]
    /\ UNCHANGED <<reg_arg, reg_got>>
    /\ UNCHANGED <<th_pc, th_now>>
    /\ UNCHANGED <<clock_vars, rl_vars, cb_vars, pc_vars, gc_vars>>

\* Line 225 / 232: return self.<dict>[service_name].
reg_return(t) ==
    /\ reg_pc[t] = "found"
    /\ reg_pc' = [reg_pc EXCEPT ![t] = "idle"]
    /\ reg_got' = [reg_got EXCEPT ![t][reg_arg[t].dict][reg_arg[t].name] =
                                      registry[reg_arg[t].dict][reg_arg[t].name]]
    /\ reg_arg' = [reg_arg EXCEPT ![t] = NoArg]
    /\ UNCHANGED <<registry, reg_made>>
    /\ UNCHANGED <<th_pc, th_now>>
    /\ UNCHANGED <<clock_vars, rl_vars, cb_vars, pc_vars, gc_vars>>

\* ================================================================
\* CircuitBreaker
\* ================================================================
\* Concurrent callers of CircuitBreaker.call (asyncio tasks on one event loop).
Callers == {"a", "b", "c"}

\* The exceptions func may raise (subclasses of Exception).
ActionErrors == {"TimeoutError", "ValueError"}

\* The explored CircuitBreakerConfig values (the dataclass accepts any integers).
CircuitBreakerConfigs ==
    [failure_threshold   : 1..MaxFailureThreshold,
     recovery_timeout    : {2},
     half_open_max_calls : 1..MaxHalfOpenCalls,
     success_threshold   : 1..MaxSuccessThreshold]

\* The breaker's fields, as one record.
breaker ==
    [state |-> state, failure_count |-> failure_count, success_count |-> success_count,
     last_failure_time |-> last_failure_time, half_open_calls |-> half_open_calls]

\* Faulty variant of _should_attempt_reset: > where the code has >=.
should_attempt_reset_strict(b, t, cfg) ==
    IF b.last_failure_time = NoneTime
    THEN TRUE
    ELSE t - b.last_failure_time > cfg.recovery_timeout

\* CircuitBreaker._should_attempt_reset
should_attempt_reset(b, t, cfg) ==
    IF b.last_failure_time = NoneTime
    THEN TRUE
    ELSE t - b.last_failure_time >= cfg.recovery_timeout

\* Faulty variant of _reset_circuit: failure_count is not cleared.
reset_circuit_keeps_failures(b) ==
    [b EXCEPT !.state = "closed", !.success_count = 0, !.half_open_calls = 0]

\* CircuitBreaker._reset_circuit
reset_circuit(b) ==
    [b EXCEPT !.state = "closed", !.failure_count = 0, !.success_count = 0,
              !.half_open_calls = 0]

\* Faulty variant of _on_success: a success in CLOSED leaves failure_count alone.
on_success_keeps_failures(b, cfg) ==
    IF b.state = "half_open"
    THEN LET b1 == [b EXCEPT !.success_count = @ + 1]
         IN  IF b1.success_count >= cfg.success_threshold THEN reset_circuit(b1) ELSE b1
    ELSE b

\* Faulty variant of _on_success: every success clears failure_count, whatever the state.
on_success_resets_everywhere(b, cfg) ==
    IF b.state = "half_open"
    THEN LET b1 == [b EXCEPT !.success_count = @ + 1, !.failure_count = 0]
         IN  IF b1.success_count >= cfg.success_threshold THEN reset_circuit(b1) ELSE b1
    ELSE [b EXCEPT !.failure_count = 0]

\* CircuitBreaker._on_success
on_success(b, cfg) ==
    IF b.state = "half_open"
    THEN LET b1 == [b EXCEPT !.success_count = @ + 1]
         IN  IF b1.success_count >= cfg.success_threshold THEN reset_circuit(b1) ELSE b1
    ELSE IF b.state = "closed"
    THEN [b EXCEPT !.failure_count = 0]
    ELSE b

\* Faulty variant of _on_failure: only a failure while CLOSED is counted.
on_failure_closed_only(b, t, cfg) ==
    IF b.state = "closed"
    THEN LET b1 == [b EXCEPT !.failure_count = @ + 1, !.last_failure_time = t]
         IN  IF b1.failure_count >= cfg.failure_threshold
             THEN [b1 EXCEPT !.state = "open"]
             ELSE b1
    ELSE [b EXCEPT !.state = "open"]

\* CircuitBreaker._on_failure
on_failure(b, t, cfg) ==
    LET b1 == [b EXCEPT !.failure_count = @ + 1, !.last_failure_time = t]
    IN  IF b1.failure_count >= cfg.failure_threshold
        THEN [b1 EXCEPT !.state = "open"]
        ELSE b1

\* Faulty variant of the gate: half_open_calls is counted before it is compared.
call_gate_counts_first(b, t, cfg) ==
    IF b.state = "open" /\ ~should_attempt_reset(b, t, cfg)
    THEN [b |-> b, verdict |-> "reject"]
    ELSE LET b1 == IF b.state = "open"
                   THEN [b EXCEPT !.state = "half_open", !.half_open_calls = 0]
                   ELSE b
             b2 == [b1 EXCEPT !.half_open_calls = @ + 1]
         IN  IF b1.state = "half_open"
             THEN IF b2.half_open_calls > cfg.half_open_max_calls
                  THEN [b |-> b2, verdict |-> "reject"]
                  ELSE [b |-> b2, verdict |-> "invoke"]
             ELSE [b |-> b1, verdict |-> "invoke"]

\* CircuitBreaker.call, lines 122-140: the gate before func is invoked.
\* verdict "invoke": func is called next; "reject": CircuitBreakerOpenError.
call_gate(b, t, cfg) ==
    IF b.state = "open" /\ ~should_attempt_reset(b, t, cfg)
    THEN [b |-> b, verdict |-> "reject"]
    ELSE LET b1 == IF b.state = "open"
                   THEN [b EXCEPT !.state = "half_open", !.half_open_calls = 0]
                   ELSE b
         IN  IF b1.state = "half_open"
             THEN IF b1.half_open_calls >= cfg.half_open_max_calls
                  THEN [b |-> b1, verdict |-> "reject"]
                  ELSE [b |-> [b1 EXCEPT !.half_open_calls = @ + 1], verdict |-> "invoke"]
             ELSE [b |-> b1, verdict |-> "invoke"]

\* The breaker's fields become those of record b.
SetBreaker(b) ==
    /\ state' = b.state
    /\ failure_count' = b.failure_count
    /\ success_count' = b.success_count
    /\ last_failure_time' = b.last_failure_time
    /\ half_open_calls' = b.half_open_calls

\* The last n elements of sequence s.
LastN(s, n) == IF Len(s) <= n THEN s ELSE SubSeq(s, Len(s) - n + 1, Len(s))

\* History of the completions seen while CLOSED (the last failure_threshold + 1).
NoteCompletion(what) ==
    closed_history' = IF state = "closed"
                      THEN LastN(Append(closed_history, what), cb_config.failure_threshold + 1)
                      ELSE <<>>

\* CircuitBreaker.call up to the await of func, as run for caller c: what it
\* does to the breaker.
CircuitBreaker_call(c) ==
    /\ pc[c] = "idle"
    /\ LET g == call_gate(breaker, now, cb_config)
       IN  /\ g.verdict = "invoke" => action_calls < MaxActionCalls
           /\ SetBreaker(g.b)
           /\ IF g.verdict = "invoke"
              THEN /\ pc' = [pc EXCEPT ![c] = "awaiting"]
                   /\ outcome' = outcome
                   /\ admitted_in' = [admitted_in EXCEPT ![c] = g.b.state]
                   /\ action_calls' = action_calls + 1
                   /\ episode_successes' = IF state = "open" THEN 0 ELSE episode_successes
              ELSE /\ outcome' = "CircuitBreakerOpenError"
                   /\ UNCHANGED <<pc, admitted_in, action_calls, episode_successes>>
    /\ UNCHANGED <<cb_config, closed_history>>

\* CircuitBreaker.call up to the await of func: caller c enters call().
call(c) ==
    /\ CircuitBreaker_call(c)
    /\ UNCHANGED <<clock_vars, rl_vars, th_vars, pc_vars, gc_vars>>

\* CircuitBreaker.call, lines 144-146, as run for caller c: what it does to the breaker.
CircuitBreaker_returns(c) ==
    /\ pc[c] = "awaiting"
    /\ SetBreaker(on_success(breaker, cb_config))
    /\ pc' = [pc EXCEPT ![c] = "idle"]
    /\ outcome' = "returned"
    /\ admitted_in' = [admitted_in EXCEPT ![c] = "none"]
    /\ NoteCompletion("S")
    /\ episode_successes' = IF state = "half_open" THEN episode_successes + 1
                            ELSE episode_successes
    /\ UNCHANGED <<cb_config, action_calls>>

\* CircuitBreaker.call, lines 144-146: func returned, _on_success, return result.
returns(c) ==
    /\ CircuitBreaker_returns(c)
    /\ UNCHANGED <<clock_vars, rl_vars, th_vars, pc_vars, gc_vars>>

\* CircuitBreaker.call, lines 148-150, as run for caller c: what it does to the breaker.
CircuitBreaker_raises(c, e) ==
    /\ pc[c] = "awaiting"
    /\ SetBreaker(on_failure(breaker, now, cb_config))
    /\ pc' = [pc EXCEPT ![c] = "idle"]
    /\ outcome' = e
    /\ admitted_in' = [admitted_in EXCEPT ![c] = "none"]
    /\ NoteCompletion("F")
    /\ UNCHANGED <<cb_config, action_calls, episode_successes>>

\* CircuitBreaker.call, lines 148-150: func raised e, _on_failure, re-raise.
raises(c, e) ==
    /\ CircuitBreaker_raises(c, e)
    /\ UNCHANGED <<clock_vars, rl_vars, th_vars, pc_vars, gc_vars>>

\* CircuitBreaker.call, lines 143-150: the task awaiting func is cancelled.
\* asyncio.CancelledError derives from BaseException: except Exception (line
\* 148) does not catch it, neither _on_success nor _on_failure runs, and it
\* leaves call() as it is.
cancelled(c) ==
    /\ pc[c] = "awaiting"
    /\ pc' = [pc EXCEPT ![c] = "idle"]
    /\ outcome' = "CancelledError"
    /\ admitted_in' = [admitted_in EXCEPT ![c] = "none"]
    /\ UNCHANGED <<cb_config, state, failure_count, success_count, last_failure_time,
                   half_open_calls, action_calls, closed_history, episode_successes>>
    /\ UNCHANGED <<clock_vars, rl_vars, th_vars, pc_vars, gc_vars>>

\* time.time() moves on by one second between two breaker steps.
TickCB ==
    /\ ticks < MaxTicks
    /\ now' = now + 1
    /\ ticks' = ticks + 1
    /\ UNCHANGED <<rl_vars, th_vars, cb_vars, pc_vars, gc_vars>>

\* ================================================================
\* PerformanceCache (the api_response entries)
\* ================================================================
\* get_api_response returns None.
NoneValue == "None"

\* A request without system_prompt (the default, None).
NoSystemPrompt == "None"

\* The requests made of generate_response (use_cache is left at its default, True).
Requests ==
    [prompt : {"p"}, system_prompt : {NoSystemPrompt, "s"},
     temperature : {"0.7"}, max_tokens : {"2048"}]

\* The texts the API answers with.
Responses == {"r1", "r2"}

\* gemini_client.py lines 126-128: full_prompt, as the pieces of the f-string.
full_prompt(req) ==
    IF req.system_prompt # NoSystemPrompt
    THEN <<"SYSTEM: ", req.system_prompt, "\n\nUSER: ", req.prompt>>
    ELSE <<req.prompt>>

\* hashlib.md5(f"{text}_{temperature}_{max_tokens}").hexdigest(): the digest is
\* identified with the string it is the digest of (md5 taken to be injective).
prompt_hash(text, req) == text \o <<"_", req.temperature, "_", req.max_tokens>>

\* gemini_client.py lines 109-111: the key read when the limiter denies.
rate_limit_key(req) == prompt_hash(<<req.prompt>>, req)

\* gemini_client.py lines 132-134: the key read before the call, read when the
\* breaker rejects (line 173) and written after the call (line 199).
request_key(req) == prompt_hash(full_prompt(req), req)

\* cache.py lines 137-142 (and 174-179): the cache key of an API response,
\* md5 of the JSON of {type, prompt_hash} (md5 taken to be injective).
api_cache_key(hash) == <<"api_response">> \o hash

\* The prompt hashes the cache is used with.
CacheKeys == {rate_limit_key(r) : r \in Requests} \cup {request_key(r) : r \in Requests}

\* The ttl values of an explored PerformanceCache (seconds).
CacheTtls == 1..MaxTtl

\* Python dicts as functions on their key set.
EmptyDict == [k \in {} |-> NoneValue]
DictSet(d, k, v) == [x \in (DOMAIN d) \cup {k} |-> IF x = k THEN v ELSE d[x]]
DictDel(d, k) == [x \in (DOMAIN d) \ {k} |-> d[x]]

\* The two tiers, as one record.
cache == [memory |-> memory_cache, files |-> file_cache]

\* PerformanceCache._is_expired
is_expired(timestamp, t, ttl) == (t - timestamp) > ttl

\* PerformanceCache.get_api_response (files are readable: no I/O error).
get_api_response(ch, hash, t, ttl) ==
    LET key == api_cache_key(hash)
        m1  == DictDel(ch.memory, key)
    IN  IF key \in DOMAIN ch.memory /\ ~is_expired(ch.memory[key].timestamp, t, ttl)
        THEN [cache |-> ch, value |-> ch.memory[key].data]
        ELSE IF key \in DOMAIN ch.files
             THEN IF ~is_expired(ch.files[key].timestamp, t, ttl)
                  THEN [cache |-> [memory |-> DictSet(m1, key, ch.files[key]),
                                   files  |-> ch.files],
                        value |-> ch.files[key].data]
                  ELSE [cache |-> [memory |-> m1, files |-> DictDel(ch.files, key)],
                        value |-> NoneValue]
             ELSE [cache |-> [memory |-> m1, files |-> ch.files], value |-> NoneValue]

\* Faulty variant of set_api_response: the memory tier is not written.
set_api_response_file_only(ch, hash, data, t) ==
    [memory |-> ch.memory,
     files  |-> DictSet(ch.files, api_cache_key(hash), [data |-> data, timestamp |-> t])]

\* PerformanceCache.set_api_response (the file is writable: no I/O error).
set_api_response(ch, hash, data, t) ==
    [memory |-> DictSet(ch.memory, api_cache_key(hash), [data |-> data, timestamp |-> t]),
     files  |-> DictSet(ch.files, api_cache_key(hash), [data |-> data, timestamp |-> t])]

\* The keys of tier d whose entry is expired at time t.
expired_keys(d, t, ttl) == {k \in DOMAIN d : is_expired(d[k].timestamp, t, ttl)}

\* PerformanceCache.clear_expired_cache: the cache it leaves and the count it returns.
clear_expired_cache(ch, t, ttl) ==
    LET from_memory == expired_keys(ch.memory, t, ttl)
        from_files  == expired_keys(ch.files, t, ttl)
    IN  [cache |-> [memory |-> [k \in (DOMAIN ch.memory) \ from_memory |-> ch.memory[k]],
                    files  |-> [k \in (DOMAIN ch.files) \ from_files |-> ch.files[k]]],
         cleared_count |-> Cardinality(from_memory) + Cardinality(from_files)]

\* The two tiers become those of record ch.
SetCache(ch) ==
    /\ memory_cache' = ch.memory
    /\ file_cache' = ch.files

\* await performance_cache.get_api_response(key)
cache_get(k) ==
    /\ LET g == get_api_response(cache, k, now, cache_ttl)
       IN  /\ SetCache(g.cache)
           /\ get_result' = [key |-> k, value |-> g.value]
    /\ UNCHANGED <<cache_ttl, cleared_count, latest_set, io_vars>>
    /\ UNCHANGED <<clock_vars, rl_vars, th_vars, cb_vars, gc_vars>>

\* await performance_cache.set_api_response(key, data)
cache_set(k, data) ==
    /\ SetCache(set_api_response(cache, k, data, now))
    /\ latest_set' = DictSet(latest_set, k, [data |-> data, timestamp |-> now])
    /\ UNCHANGED <<cache_ttl, get_result, cleared_count, io_vars>>
    /\ UNCHANGED <<clock_vars, rl_vars, th_vars, cb_vars, gc_vars>>

\* performance_cache.clear_expired_cache()
cache_sweep ==
    /\ LET r == clear_expired_cache(cache, now, cache_ttl)
       IN  /\ SetCache(r.cache)
           /\ cleared_count' = r.cleared_count
    /\ UNCHANGED <<cache_ttl, get_result, latest_set, io_vars>>
    /\ UNCHANGED <<clock_vars, rl_vars, th_vars, cb_vars, gc_vars>>

\* The process is started again: PerformanceCache.__init__ over the files of
\* the cache_dir that the previous process left.
cache_restart ==
    /\ memory_cache # EmptyDict
    /\ memory_cache' = EmptyDict
    /\ UNCHANGED <<cache_ttl, file_cache, get_result, cleared_count, latest_set, io_vars>>
    /\ UNCHANGED <<clock_vars, rl_vars, th_vars, cb_vars, gc_vars>>

\* time.time() moves on by one second between two cache operations.
TickPC ==
    /\ ticks < MaxTicks
    /\ now' = now + 1
    /\ ticks' = ticks + 1
    /\ UNCHANGED <<rl_vars, th_vars, cb_vars, pc_vars, gc_vars>>

\* ---------------------------------------------------------------
\* The cache over a file system that fails.  One system call of the file
\* tier fails during an operation: stat (Path.exists, with an errno pathlib
\* does not take for "no such file": EACCES, EIO), open, read (pickle.load),
\* write (pickle.dump, after open has truncated the file) or unlink.
\* ---------------------------------------------------------------
Faults == {"none", "stat", "open", "read", "write", "unlink"}

\* The prompt hash the failing file system is explored with.
IOKeys == {request_key(r) : r \in {q \in Requests : q.system_prompt = NoSystemPrompt}}

\* A file that pickle.load cannot load (cut short by a failed write).
CorruptEntry == [data |-> "<truncated pickle>", timestamp |-> NoneTime]

\* What a cache operation gives its caller: a value, or an exception.
Gave(ch, v) == [cache |-> ch, value |-> v, raised |-> "none"]
Threw(ch, e) == [cache |-> ch, value |-> NoneValue, raised |-> e]

\* PerformanceCache.get_api_response, lines 135-170, with the system call named
\* by fault failing.  cache_path.exists() (line 155) is outside the try.
get_api_response_io(ch, hash, t, ttl, fault) ==
    LET key  == api_cache_key(hash)
        m1   == DictDel(ch.memory, key)
        miss == Gave([memory |-> m1, files |-> ch.files], NoneValue)
    IN  IF key \in DOMAIN ch.memory /\ ~is_expired(ch.memory[key].timestamp, t, ttl)
        THEN Gave(ch, ch.memory[key].data)
        ELSE IF fault = "stat"
        THEN Threw([memory |-> m1, files |-> ch.files], "PermissionError")
        ELSE IF key \notin DOMAIN ch.files
        THEN miss
        ELSE IF fault \in {"open", "read"} \/ ch.files[key] = CorruptEntry
        THEN miss
        ELSE IF ~is_expired(ch.files[key].timestamp, t, ttl)
        THEN Gave([memory |-> DictSet(m1, key, ch.files[key]), files |-> ch.files],
                  ch.files[key].data)
        ELSE IF fault = "unlink"
        THEN miss
        ELSE Gave([memory |-> m1, files |-> DictDel(ch.files, key)], NoneValue)

\* PerformanceCache.set_api_response, lines 172-199, with the system call named
\* by fault failing: a failed open leaves the file as it was, a failed write
\* leaves the file that open('wb') has truncated.
set_api_response_io(ch, hash, data, t, fault) ==
    LET key   == api_cache_key(hash)
        entry == [data |-> data, timestamp |-> t]
    IN  Gave([memory |-> DictSet(ch.memory, key, entry),
              files  |-> IF fault = "open" THEN ch.files
                         ELSE IF fault = "write" THEN DictSet(ch.files, key, CorruptEntry)
                         ELSE DictSet(ch.files, key, entry)],
             NoneValue)

\* The files clear_expired_cache unlinks: those it can load, finds expired and
\* can unlink (lines 228-238).
unlinked_keys(d, t, ttl, fault) ==
    IF fault \in {"open", "read", "unlink"} THEN {}
    ELSE {k \in DOMAIN d : d[k] # CorruptEntry /\ is_expired(d[k].timestamp, t, ttl)}

\* PerformanceCache.clear_expired_cache, lines 212-243, with the system call
\* named by fault failing on every file.
clear_expired_cache_io(ch, t, ttl, fault) ==
    LET from_memory == expired_keys(ch.memory, t, ttl)
        from_files  == unlinked_keys(ch.files, t, ttl, fault)
    IN  Gave([memory |-> [k \in (DOMAIN ch.memory) \ from_memory |-> ch.memory[k]],
              files  |-> [k \in (DOMAIN ch.files) \ from_files |-> ch.files[k]]],
             Cardinality(from_memory) + Cardinality(from_files))

\* await performance_cache.get_api_response(key), one system call failing
io_get(k, fault) ==
    /\ LET g == get_api_response_io(cache, k, now, cache_ttl, fault)
       IN  /\ SetCache(g.cache)
           /\ get_result' = [key |-> k, value |-> g.value]
           /\ cache_error' = g.raised
    /\ UNCHANGED <<cache_ttl, cleared_count, latest_set, file_bytes, fw_pc, fr_pc, fw_read>>
    /\ UNCHANGED <<clock_vars, rl_vars, th_vars, cb_vars, gc_vars>>

\* await performance_cache.set_api_response(key, data), one system call failing
io_set(k, data, fault) ==
    /\ LET g == set_api_response_io(cache, k, data, now, fault)
       IN  /\ SetCache(g.cache)
           /\ cache_error' = g.raised
    /\ latest_set' = DictSet(latest_set, k, [data |-> data, timestamp |-> now])
    /\ UNCHANGED <<cache_ttl, get_result, cleared_count, file_bytes, fw_pc, fr_pc, fw_read>>
    /\ UNCHANGED <<clock_vars, rl_vars, th_vars, cb_vars, gc_vars>>

\* performance_cache.clear_expired_cache(), one system call failing
io_sweep(fault) ==
    /\ LET g == clear_expired_cache_io(cache, now, cache_ttl, fault)
       IN  /\ SetCache(g.cache)
           /\ cleared_count' = g.value
           /\ cache_error' = g.raised
    /\ UNCHANGED <<cache_ttl, get_result, latest_set, file_bytes, fw_pc, fr_pc, fw_read>>
    /\ UNCHANGED <<clock_vars, rl_vars, th_vars, cb_vars, gc_vars>>

\* ---------------------------------------------------------------
\* One <key>.cache file written and read by threads.  The sessions of
\* ui/streamlit_app.py run on their own threads and share the global
\* performance_cache; set_api_response writes the file in place (open 'wb',
\* pickle.dump) and takes no lock.  The pickle of a long response reaches the
\* file in two write() calls (the buffer of the file object is smaller than
\* the pickle); each writer has its own file offset.
\* ---------------------------------------------------------------
Writers == {"w1", "w2"}

\* The response each writer caches (temperature 0.7: two answers to one prompt).
written_by(w) == IF w = "w1" THEN "r1" ELSE "r2"

\* The pickle of an entry holding response d, as the two blocks it is written in.
Blocks(d) == <<d, d>>

\* get_api_response returned None.
NoBlocks == <<>>

\* The prompt hash the writers and the reader use.
FWKey == request_key([prompt |-> "p", system_prompt |-> NoSystemPrompt,
                      temperature |-> "0.7", max_tokens |-> "2048"])

\* cache_path.exists() is False.
NoFile == [exists |-> FALSE, blocks |-> <<>>]

\* open(cache_path, 'wb'): the file exists and is empty.
Truncated == [exists |-> TRUE, blocks |-> <<>>]

\* write() of block d at block offset i of a file: bytes between the end of the
\* file and the offset read as zeros.
WriteAt(f, i, d) ==
    [exists |-> TRUE,
     blocks |-> IF i <= Len(f.blocks) THEN [f.blocks EXCEPT ![i] = d]
                ELSE IF i = Len(f.blocks) + 1 THEN Append(f.blocks, d)
                ELSE Append(Append(f.blocks, "zeros"), d)]

\* pickle.load(f) of the file's blocks: the header is in the first block, the
\* string's bytes run over both; a short file, or zeros for a header, raises
\* (EOFError, UnpicklingError), which get_api_response catches (line 167).
Loads(f) == Len(f.blocks) = Len(Blocks("")) /\ f.blocks[1] # "zeros"

\* set_api_response of writer w, line 183: the memory tier.
fw_memory(w) ==
    /\ fw_pc[w] = "idle"
    /\ fw_pc' = [fw_pc EXCEPT ![w] = "stored"]
    /\ memory_cache' = DictSet(memory_cache, api_cache_key(FWKey),
                               [data |-> Blocks(written_by(w)), timestamp |-> now])
    /\ UNCHANGED <<cache_ttl, file_cache, get_result, cleared_count, latest_set,
                   cache_error, file_bytes, fr_pc, fw_read>>
    /\ UNCHANGED <<clock_vars, rl_vars, th_vars, cb_vars, gc_vars>>

\* set_api_response of writer w, line 193: open(cache_path, 'wb').
fw_open(w) ==
    /\ fw_pc[w] = "stored"
    /\ fw_pc' = [fw_pc EXCEPT ![w] = "opened"]
    /\ file_bytes' = Truncated
    /\ UNCHANGED <<cache_ttl, memory_cache, file_cache, get_result, cleared_count, latest_set,
                   cache_error, fr_pc, fw_read>>
    /\ UNCHANGED <<clock_vars, rl_vars, th_vars, cb_vars, gc_vars>>

\* set_api_response of writer w, line 194: pickle.dump, one write() call; the
\* second one ends the with block (close).
fw_write(w) ==
    /\ fw_pc[w] \in {"opened", "wrote"}
    /\ IF fw_pc[w] = "opened"
       THEN /\ file_bytes' = WriteAt(file_bytes, 1, written_by(w))
            /\ fw_pc' = [fw_pc EXCEPT ![w] = "wrote"]
       ELSE /\ file_bytes' = WriteAt(file_bytes, 2, written_by(w))
            /\ fw_pc' = [fw_pc EXCEPT ![w] = "idle"]
    /\ UNCHANGED <<cache_ttl, memory_cache, file_cache, get_result, cleared_count, latest_set,
                   cache_error, fr_pc, fw_read>>
    /\ UNCHANGED <<clock_vars, rl_vars, th_vars, cb_vars, gc_vars>>

\* get_api_response of the reader, lines 145-151: the memory tier (no time
\* passes between the threads' steps: nothing is expired).
fr_memory ==
    /\ fr_pc = "idle"
    /\ IF api_cache_key(FWKey) \in DOMAIN memory_cache
       THEN /\ fw_read' = memory_cache[api_cache_key(FWKey)].data
            /\ UNCHANGED fr_pc
       ELSE /\ fr_pc' = "file"
            /\ UNCHANGED fw_read
    /\ UNCHANGED <<cache_ttl, memory_cache, file_cache, get_result, cleared_count, latest_set,
                   cache_error, file_bytes, fw_pc>>
    /\ UNCHANGED <<clock_vars, rl_vars, th_vars, cb_vars, gc_vars>>

\* get_api_response of the reader, lines 154-170: the file (the clock stands
\* still here: the timestamp pickled in the file is now).
fr_file ==
    /\ fr_pc = "file"
    /\ fr_pc' = "idle"
    /\ IF file_bytes.exists /\ Loads(file_bytes)
       THEN /\ fw_read' = file_bytes.blocks
            /\ memory_cache' = DictSet(memory_cache, api_cache_key(FWKey),
                                       [data |-> file_bytes.blocks, timestamp |-> now])
       ELSE /\ fw_read' = NoBlocks
            /\ UNCHANGED memory_cache
    /\ UNCHANGED <<cache_ttl, file_cache, get_result, cleared_count, latest_set,
                   cache_error, file_bytes, fw_pc>>
    /\ UNCHANGED <<clock_vars, rl_vars, th_vars, cb_vars, gc_vars>>

\* ================================================================
\* GeminiClient.generate_response
\* ================================================================
\* The task calling generate_response.
Tasks == {"a"}

NoRequest == [prompt |-> "", system_prompt |-> NoSystemPrompt,
              temperature |-> "", max_tokens |-> ""]

\* No key was used.
NoKey == <<>>

\* A str, as the f-string it was formatted by and the values formatted into it.
Verbatim(text) == [fmt |-> "{}", arg |-> text, n |-> 0]
RateLimitMessage(retry_after) ==
    [fmt |-> "Rate limit exceeded. Retry after {} seconds.", arg |-> "", n |-> retry_after]
UnavailableMessage ==
    [fmt |-> "Service temporarily unavailable. Using fallback response.", arg |-> "", n |-> 0]
ErrorMessage(e) ==
    [fmt |-> "Error: Unable to generate response - {}", arg |-> e, n |-> 0]

\* How a call of generate_response ends: it returns a str, or raises.
Returned(str) == [kind |-> "return", value |-> str]
Raised(e) == [kind |-> "raise", value |-> Verbatim(e)]

\* The record of keys used for request req, with one more use.
NoteKey(req, use, key) ==
    keys_used' = [keys_used EXCEPT ![req] = [@ EXCEPT ![use] = key]]

\* generate_response(prompt, temperature, max_tokens, system_prompt) of task c,
\* lines 96-164: from the call up to its first suspension (await of the API
\* call inside circuit_breaker.call) or, if it never gets there, up to its return.
generate_response(c, req) ==
    /\ pc[c] = "idle"
    /\ RateLimiter_is_allowed(1)
    /\ IF ~decision'.allowed
       THEN \* lines 103-119
            LET g == get_api_response(cache, rate_limit_key(req), now, cache_ttl)
            IN  /\ SetCache(g.cache)
                /\ get_result' = [key |-> rate_limit_key(req), value |-> g.value]
                /\ gc_result' = IF g.value # NoneValue
                                THEN Returned(Verbatim(g.value))
                                ELSE Returned(RateLimitMessage(decision'.retry_after))
                /\ NoteKey(req, "rate_limit", rate_limit_key(req))
                /\ UNCHANGED <<cb_vars, gc_req>>
       ELSE \* lines 124-143
            LET g == get_api_response(cache, request_key(req), now, cache_ttl)
            IN  IF g.value # NoneValue
                THEN /\ SetCache(g.cache)
                     /\ get_result' = [key |-> request_key(req), value |-> g.value]
                     /\ gc_result' = Returned(Verbatim(g.value))
                     /\ UNCHANGED <<cb_vars, gc_req, keys_used>>
                ELSE \* lines 145-164
                     /\ CircuitBreaker_call(c)
                     /\ IF pc'[c] = "awaiting"
                        THEN /\ SetCache(g.cache)
                             /\ get_result' = [key |-> request_key(req), value |-> g.value]
                             /\ gc_req' = [gc_req EXCEPT ![c] = req]
                             /\ UNCHANGED <<gc_result, keys_used>>
                        ELSE \* lines 166-179: CircuitBreakerOpenError
                             LET g2 == get_api_response(g.cache, request_key(req), now,
                                                        cache_ttl)
                             IN  /\ SetCache(g2.cache)
                                 /\ get_result' = [key |-> request_key(req),
                                                   value |-> g2.value]
                                 /\ gc_result' = IF g2.value # NoneValue
                                                 THEN Returned(Verbatim(g2.value))
                                                 ELSE Returned(UnavailableMessage)
                                 /\ NoteKey(req, "circuit_open", request_key(req))
                                 /\ UNCHANGED gc_req
    /\ UNCHANGED <<cache_ttl, cleared_count, latest_set, io_vars>>
    /\ UNCHANGED <<clock_vars, th_vars>>

\* generate_response of task c, lines 162-204: the API answered with text.
api_returns(c, text) ==
    /\ gc_req[c] # NoRequest
    /\ CircuitBreaker_returns(c)
    /\ SetCache(set_api_response(cache, request_key(gc_req[c]), text, now))
    /\ latest_set' = DictSet(latest_set, request_key(gc_req[c]),
                             [data |-> text, timestamp |-> now])
    /\ NoteKey(gc_req[c], "written", request_key(gc_req[c]))
    /\ gc_result' = Returned(Verbatim(text))
    /\ gc_req' = [gc_req EXCEPT ![c] = NoRequest]
    /\ UNCHANGED <<cache_ttl, get_result, cleared_count, io_vars>>
    /\ UNCHANGED <<clock_vars, rl_vars, th_vars>>

\* Faulty variant of lines 206-208: the except block also stores str(e) in the
\* cache as if it were the response.
api_raises_caching(c, e) ==
    /\ gc_req[c] # NoRequest
    /\ CircuitBreaker_raises(c, e)
    /\ SetCache(set_api_response(cache, request_key(gc_req[c]), e, now))
    /\ gc_result' = Returned(ErrorMessage(e))
    /\ gc_req' = [gc_req EXCEPT ![c] = NoRequest]
    /\ UNCHANGED keys_used
    /\ UNCHANGED <<cache_ttl, get_result, cleared_count, latest_set, io_vars>>
    /\ UNCHANGED <<clock_vars, rl_vars, th_vars>>

\* generate_response of task c, lines 148-150 of rate_limiter.py and 206-208:
\* the API call raised e, the breaker re-raised it, except Exception caught it.
api_raises(c, e) ==
    /\ gc_req[c] # NoRequest
    /\ CircuitBreaker_raises(c, e)
    /\ gc_result' = Returned(ErrorMessage(e))
    /\ gc_req' = [gc_req EXCEPT ![c] = NoRequest]
    /\ UNCHANGED keys_used
    /\ UNCHANGED <<clock_vars, rl_vars, th_vars, pc_vars>>

\* generate_response of task c, lines 166-193: the API call raised ImportError
\* (a module the client library imports on demand is missing).  The breaker
\* counts the failure and re-raises it (rate_limiter.py lines 148-150); line 166
\* catches it as if utils.rate_limiter could not be imported, and the else
\* branch calls the API again, directly (line 189).
api_raises_import_error(c) ==
    /\ gc_req[c] # NoRequest
    /\ pc[c] = "awaiting"
    /\ action_calls < MaxActionCalls
    /\ SetBreaker(on_failure(breaker, now, cb_config))
    /\ pc' = [pc EXCEPT ![c] = "direct"]
    /\ outcome' = "ImportError"
    /\ admitted_in' = [admitted_in EXCEPT ![c] = "none"]
    /\ NoteCompletion("F")
    /\ action_calls' = action_calls + 1
    /\ UNCHANGED <<cb_config, episode_successes>>
    /\ UNCHANGED <<clock_vars, rl_vars, th_vars, pc_vars, gc_vars>>

\* generate_response of task c, lines 189-204: the direct API call answered
\* with text.
direct_returns(c, text) ==
    /\ pc[c] = "direct"
    /\ pc' = [pc EXCEPT ![c] = "idle"]
    /\ SetCache(set_api_response(cache, request_key(gc_req[c]), text, now))
    /\ latest_set' = DictSet(latest_set, request_key(gc_req[c]),
                             [data |-> text, timestamp |-> now])
    /\ NoteKey(gc_req[c], "written", request_key(gc_req[c]))
    /\ gc_result' = Returned(Verbatim(text))
    /\ gc_req' = [gc_req EXCEPT ![c] = NoRequest]
    /\ UNCHANGED <<cb_config, state, failure_count, success_count, last_failure_time,
                   half_open_calls, outcome, admitted_in, action_calls, closed_history,
                   episode_successes>>
    /\ UNCHANGED <<cache_ttl, get_result, cleared_count, io_vars>>
    /\ UNCHANGED <<clock_vars, rl_vars, th_vars>>

\* generate_response of task c, lines 189 and 206-208: the direct API call
\* raised e inside the except block; except Exception caught it.
direct_raises(c, e) ==
    /\ pc[c] = "direct"
    /\ pc' = [pc EXCEPT ![c] = "idle"]
    /\ gc_result' = Returned(ErrorMessage(e))
    /\ gc_req' = [gc_req EXCEPT ![c] = NoRequest]
    /\ UNCHANGED <<cb_config, state, failure_count, success_count, last_failure_time,
                   half_open_calls, outcome, admitted_in, action_calls, closed_history,
                   episode_successes>>
    /\ UNCHANGED keys_used
    /\ UNCHANGED <<clock_vars, rl_vars, th_vars, pc_vars>>

\* Clock advances between steps of generate_response (seconds): the cache's ttl,
\* which is also longer than the limiter's windows and the breaker's
\* recovery_timeout.  An entry is ttl seconds old after one advance and older
\* than ttl after two.
GCTickSteps == {3600}

\* time.time() moves on between two steps of generate_response.
TickGC(d) ==
    /\ ticks < MaxGCTicks
    /\ now' = now + d
    /\ ticks' = ticks + 1
    /\ UNCHANGED <<rl_vars, th_vars, cb_vars, pc_vars, gc_vars>>

\* ================================================================
\* Specifications
\* ================================================================
\* time.time() at construction.
ClockInit ==
    /\ now = 1
    /\ ticks = 0

\* RateLimiter.__init__, for a config drawn from cfgs.
RateLimiterInit(cfgs) ==
    /\ rl_config \in cfgs
    /\ tokens = rl_config.burst_allowance
    /\ last_refill = now
    /\ minute_requests = <<>>
    /\ hour_requests = <<>>
    /\ decision = [allowed |-> TRUE, reason |-> "none", retry_after |-> 0]
    /\ admitted = <<>>
    /\ first_call = NoneTime
    /\ th_pc = [t \in Threads |-> "idle"]
    /\ th_now = [t \in Threads |-> NoneTime]

\* ProductionAPIManager.__init__: both dicts are empty.
APIManagerInit ==
    /\ registry = [d \in RegDicts |-> [n \in ServiceNames |-> NoInstance]]
    /\ reg_pc = [t \in Threads |-> "idle"]
    /\ reg_arg = [t \in Threads |-> NoArg]
    /\ reg_got = [t \in Threads |-> [d \in RegDicts |-> [n \in ServiceNames |-> NoInstance]]]
    /\ reg_made = <<>>

\* CircuitBreaker.__init__, for a config drawn from cfgs.
CircuitBreakerInit(cfgs) ==
    /\ cb_config \in cfgs
    /\ state = "closed"
    /\ failure_count = 0
    /\ success_count = 0
    /\ last_failure_time = NoneTime
    /\ half_open_calls = 0
    /\ pc = [c \in Callers |-> "idle"]
    /\ outcome = "none"
    /\ admitted_in = [c \in Callers |-> "none"]
    /\ action_calls = 0
    /\ closed_history = <<>>
    /\ episode_successes = 0

\* PerformanceCache.__init__ over an empty cache_dir, for a ttl drawn from ttls.
PerformanceCacheInit(ttls) ==
    /\ cache_ttl \in ttls
    /\ memory_cache = EmptyDict
    /\ file_cache = EmptyDict
    /\ get_result = [key |-> NoKey, value |-> NoneValue]
    /\ cleared_count = 0
    /\ latest_set = EmptyDict
    /\ cache_error = "none"
    /\ file_bytes = NoFile
    /\ fw_pc = [w \in Writers |-> "idle"]
    /\ fr_pc = "idle"
    /\ fw_read = NoBlocks

\* No generate_response has been called.
GeminiClientInit ==
    /\ gc_req = [c \in Callers |-> NoRequest]
    /\ gc_result = Returned(Verbatim(""))
    /\ keys_used = [r \in Requests |->
                       [rate_limit |-> NoKey, circuit_open |-> NoKey, written |-> NoKey]]

\* _get_rate_config('gemini_api'): 30 per minute, 500 per hour, burst 5, scaled
\* down to 3, 4 and 3 so that the limiter denies the fourth call in a row.
gemini_rate_config ==
    [requests_per_minute |-> 3, requests_per_hour |-> 4,
     burst_allowance |-> 3, cooldown_seconds |-> 45]

\* _get_circuit_config('gemini_api')

gemini_circuit_config ==
    [failure_threshold |-> 2, recovery_timeout |-> 120,
     half_open_max_calls |-> 1, success_threshold |-> 1]

\* cache.py line 16: the ttl of the global performance_cache.
default_ttl == 3600

\* ---- the rate limiter alone
InitRL ==
    /\ ClockInit
    /\ RateLimiterInit(RateLimitConfigs)
    /\ CircuitBreakerInit({default_circuit_config})
    /\ PerformanceCacheInit({default_ttl})
    /\ GeminiClientInit
    /\ APIManagerInit

NextRL ==
    \/ \E cost \in 1..MaxCost : is_allowed(cost)
    \/ \E d \in RLTickSteps : TickRL(d)

SpecRL == InitRL /\ [][NextRL]_vars

\* ---- the rate limiter, every call with the default cost
NextRL1 ==
    \/ is_allowed(1)
    \/ \E d \in RLTickSteps : TickRL(d)

SpecRL1 == InitRL /\ [][NextRL1]_vars

\* ---- the rate limiter called from threads
NextRLT ==
    \/ \E t \in Threads : th_cleanup(t)
    \/ \E t \in Threads : th_check_windows(t)
    \/ \E t \in Threads : th_refill(t)
    \/ \E t \in Threads : th_check_tokens(t)
    \/ \E t \in Threads : th_admit(t)
    \/ \E d \in RLTTickSteps : TickRL(d)

SpecRLT == InitRL /\ [][NextRLT]_vars

\* ---- the rate limiter polled at a fixed interval
NextRLP ==
    \/ is_allowed(1)
    \/ \E d \in RLPTickSteps : TickRL(d)

SpecRLP == InitRL /\ [][NextRLP]_vars

\* ---- the registry of api_manager, its getters called from threads
NextREG ==
    \/ \E t \in Threads, d \in RegDicts, n \in ServiceNames : reg_check(t, d, n)
    \/ \E t \in Threads : reg_store(t)
    \/ \E t \in Threads : reg_return(t)

SpecREG == InitRL /\ [][NextREG]_vars

\* ---- the circuit breaker alone
InitCB ==
    /\ ClockInit
    /\ RateLimiterInit({default_rate_config})
    /\ CircuitBreakerInit(CircuitBreakerConfigs)
    /\ PerformanceCacheInit({default_ttl})
    /\ GeminiClientInit
    /\ APIManagerInit

NextCB ==
    \/ \E c \in Callers : call(c)
    \/ \E c \in Callers : returns(c)
    \/ \E c \in Callers, e \in ActionErrors : raises(c, e)
    \/ TickCB

SpecCB == InitCB /\ [][NextCB]_vars

\* ---- the circuit breaker, with calls that are cancelled
NextCBX ==
    \/ \E c \in Callers : call(c)
    \/ \E c \in Callers : returns(c)
    \/ \E c \in Callers, e \in ActionErrors : raises(c, e)
    \/ \E c \in Callers : cancelled(c)
    \/ TickCB

SpecCBX == InitCB /\ [][NextCBX]_vars

\* ---- the cache alone
InitPC ==
    /\ ClockInit
    /\ RateLimiterInit({default_rate_config})
    /\ CircuitBreakerInit({default_circuit_config})
    /\ PerformanceCacheInit(CacheTtls)
    /\ GeminiClientInit
    /\ APIManagerInit

NextPC ==
    \/ \E k \in CacheKeys : cache_get(k)
    \/ \E k \in CacheKeys, data \in Responses : cache_set(k, data)
    \/ cache_sweep
    \/ cache_restart
    \/ TickPC

SpecPC == InitPC /\ [][NextPC]_vars

\* ---- the cache over a file system that fails
NextIO ==
    \/ \E k \in IOKeys, f \in Faults : io_get(k, f)
    \/ \E k \in IOKeys, data \in Responses, f \in Faults : io_set(k, data, f)
    \/ \E f \in Faults : io_sweep(f)
    \/ TickPC

SpecIO == InitPC /\ [][NextIO]_vars

\* ---- one cache file written and read by threads
NextFW ==
    \/ \E w \in Writers : fw_memory(w)
    \/ \E w \in Writers : fw_open(w)
    \/ \E w \in Writers : fw_write(w)
    \/ fr_memory
    \/ fr_file

SpecFW == InitPC /\ [][NextFW]_vars

\* ---- generate_response: limiter, cache and breaker of 'gemini_api' composed
InitGC ==
    /\ ClockInit
    /\ RateLimiterInit({gemini_rate_config})
    /\ CircuitBreakerInit({gemini_circuit_config})
    /\ PerformanceCacheInit({default_ttl})
    /\ GeminiClientInit
    /\ APIManagerInit

NextGC ==
    \/ \E c \in Tasks, req \in Requests : generate_response(c, req)
    \/ \E c \in Tasks, text \in Responses : api_returns(c, text)
    \/ \E c \in Tasks, e \in ActionErrors : api_raises(c, e)
    \/ \E c \in Tasks : api_raises_import_error(c)
    \/ \E c \in Tasks, text \in Responses : direct_returns(c, text)
    \/ \E c \in Tasks, e \in ActionErrors \cup {"ImportError"} : direct_raises(c, e)
    \/ \E d \in GCTickSteps : TickGC(d)

SpecGC == InitGC /\ [][NextGC]_vars

\* ================================================================
\* Properties of the rate limiter (checked under SpecRL)
\* ================================================================

\* C1: at every observation point between is_allowed calls the token count
\* satisfies 0 <= tokens <= burst_allowance.
C1_TokensWithinBurst ==
    /\ 0 <= tokens
    /\ tokens <= rl_config.burst_allowance

\* A call was admitted after a refill and spent the last token.
C1_Witness ==
    /\ decision.allowed
    /\ last_refill > 1
    /\ tokens = 0
    /\ Len(hour_requests) > 1

\* Number of admissions in the trailing interval (t - window, t].
AdmittedIn(t, window) ==
    Cardinality({i \in DOMAIN admitted : admitted[i] <= t /\ t - admitted[i] < window})

\* The interval ends worth looking at: now, and every admission time.
WindowEnds == {now} \cup {admitted[i] : i \in DOMAIN admitted}

WindowCountsBounded ==
    \A t \in WindowEnds :
        /\ AdmittedIn(t, MinuteWindow) <= rl_config.requests_per_minute
        /\ AdmittedIn(t, HourWindow) <= rl_config.requests_per_hour

WindowsPruned ==
    /\ \A i \in DOMAIN minute_requests : now - minute_requests[i] < MinuteWindow
    /\ \A i \in DOMAIN hour_requests : now - hour_requests[i] < HourWindow

\* C2: the admissions in any trailing 60-second interval never exceed
\* requests_per_minute, those in any trailing 3600-second interval never exceed
\* requests_per_hour, and every is_allowed call leaves both windows holding only
\* entries of their trailing interval.
C2_SlidingWindows ==
    /\ []WindowCountsBounded
    /\ [][(\E cost \in 1..MaxCost : is_allowed(cost)) => WindowsPruned']_vars

\* A call was admitted into a full minute window after older entries had been pruned.
C2_Witness ==
    /\ decision.allowed
    /\ now > MinuteWindow
    /\ Len(minute_requests) = rl_config.requests_per_minute
    /\ Len(hour_requests) > Len(minute_requests)

\* ---------------------------------------------------------------
\* (checked under SpecRLT: is_allowed called from threads)
\* ---------------------------------------------------------------
\* What the refill formula grants for the time elapsed since __init__ (at time 1).
RefillBudget == IntTrunc((now - 1) * rl_config.requests_per_minute, 60)

\* C11: however the callers of is_allowed on one limiter interleave, the number
\* of admitted calls never exceeds burst_allowance plus the tokens the refill
\* formula grants for the elapsed time (during the first hour, while the
\* admission history still holds every admission).
C11_AdmittedWithinBudget ==
    now - 1 < HourWindow =>
        Len(admitted) <= rl_config.burst_allowance + RefillBudget

\* ---------------------------------------------------------------
\* (checked under SpecRL1: every call with the default cost)
\* ---------------------------------------------------------------
\* No call yet, or less than a minute since the first one.
InFirstWindow ==
    \/ first_call = NoneTime
    \/ first_call # WindowOver /\ now - first_call < MinuteWindow

\* C12: on a fresh limiter with requests_per_minute = burst_allowance = N, a call
\* made within 60 seconds of the first call is allowed while fewer than N calls
\* have been admitted (so the first N calls are all allowed), and the call after
\* N admissions is denied with 0 < retry_after <= 60.
C12_FirstWindow ==
    [][is_allowed(1) /\ rl_config.requests_per_minute = rl_config.burst_allowance
                     /\ InFirstWindow
         => IF Len(admitted) < rl_config.requests_per_minute
            THEN decision'.allowed /\ Len(admitted') = Len(admitted) + 1
            ELSE /\ ~decision'.allowed
                 /\ decision'.retry_after > 0
                 /\ decision'.retry_after <= 60]_vars

\* N = 3: three calls were admitted and the fourth, later in the same minute, was denied.
C12_Witness ==
    /\ rl_config.requests_per_minute = 3
    /\ rl_config.burst_allowance = 3
    /\ InFirstWindow
    /\ now > first_call
    /\ Len(admitted) = 3
    /\ ~decision.allowed
    /\ decision.retry_after > 0
    /\ decision.retry_after <= 60

\* ================================================================
\* Properties of the circuit breaker (checked under SpecCB)
\* ================================================================
RECURSIVE TrailingFailures(_)
TrailingFailures(h) ==
    IF h = <<>> THEN 0
    ELSE IF h[Len(h)] = "F" THEN 1 + TrailingFailures(SubSeq(h, 1, Len(h) - 1))
    ELSE 0

InFlight == {c \in Callers : pc[c] = "awaiting"}

\* Calls in flight that were admitted as half-open probes.
ProbesInFlight == {c \in InFlight : admitted_in[c] = "half_open"}

\* Caller c's call() is rejected in this step (CircuitBreakerOpenError).
Rejected(c) == call(c) /\ pc'[c] = "idle"

\* Caller c's call() invokes func in this step.
Invoked(c) == call(c) /\ pc'[c] = "awaiting" /\ action_calls' = action_calls + 1

\* C3: while CLOSED, failure_count is the number of failures since the last
\* success and stays below failure_threshold; the breaker leaves CLOSED only for
\* OPEN, exactly at the failure that makes failure_threshold failures with no
\* success in between, and records last_failure_time then.
C3_OpensAtThreshold ==
    /\ [](state = "closed" =>
            /\ failure_count = TrailingFailures(closed_history)
            /\ failure_count < cb_config.failure_threshold)
    /\ [][state = "closed" /\ state' # "closed" =>
            /\ state' = "open"
            /\ TrailingFailures(closed_history') = cb_config.failure_threshold
            /\ last_failure_time' = now]_vars

\* Failure, success, failure with failure_threshold = 2: still CLOSED.
C3_Witness ==
    /\ state = "closed"
    /\ cb_config.failure_threshold = 2
    /\ closed_history = <<"F", "S", "F">>
    /\ failure_count = 1

\* C4: a call made while OPEN before recovery_timeout has elapsed is rejected
\* without invoking func, and every rejected call leaves the state, the counters
\* and last_failure_time unchanged.
C4_RejectionIsInert ==
    [][\A c \in Callers :
        /\ (call(c) /\ state = "open"
                    /\ now - last_failure_time < cb_config.recovery_timeout
               => Rejected(c) /\ outcome' = "CircuitBreakerOpenError"
                              /\ action_calls' = action_calls)
        /\ (Rejected(c) =>
               /\ outcome' = "CircuitBreakerOpenError"
               /\ UNCHANGED <<state, failure_count, success_count, last_failure_time,
                              half_open_calls, action_calls, pc>>)]_vars

\* A call was rejected while OPEN, before the timeout.
C4_Witness ==
    /\ state = "open"
    /\ outcome = "CircuitBreakerOpenError"
    /\ now - last_failure_time < cb_config.recovery_timeout
    /\ now > last_failure_time

\* C5: a call made while OPEN once recovery_timeout has elapsed moves the breaker
\* to HALF_OPEN and invokes func; with half_open_max_calls = 1 every other call
\* made while the breaker is HALF_OPEN is rejected without invoking func.
C5_HalfOpenProbe ==
    /\ [](state = "half_open" /\ cb_config.half_open_max_calls = 1
            => half_open_calls = 1)
    /\ [][\A c \in Callers :
            /\ (call(c) /\ state = "open"
                        /\ now - last_failure_time >= cb_config.recovery_timeout
                   => Invoked(c) /\ state' = "half_open" /\ half_open_calls' = 1)
            /\ (call(c) /\ state = "half_open" /\ cb_config.half_open_max_calls = 1
                   => Rejected(c) /\ outcome' = "CircuitBreakerOpenError"
                                  /\ action_calls' = action_calls
                                  /\ state' = "half_open")]_vars

\* With half_open_max_calls = 1: the probe is in flight and another call was rejected.
C5_Witness ==
    /\ state = "half_open"
    /\ cb_config.half_open_max_calls = 1
    /\ ProbesInFlight # {}
    /\ outcome = "CircuitBreakerOpenError"

\* C6: while the breaker is HALF_OPEN, the calls in flight (counting only those
\* admitted as half-open probes) never exceed half_open_max_calls.
C6_HalfOpenInFlightBounded ==
    state = "half_open" => Cardinality(ProbesInFlight) <= cb_config.half_open_max_calls

\* C7: a success while HALF_OPEN increments success_count; when it reaches
\* success_threshold the breaker is CLOSED with failure_count, success_count and
\* half_open_calls all 0.
C7_SuccessCloses ==
    [][\A c \in Callers : returns(c) /\ state = "half_open" =>
          IF success_count + 1 >= cb_config.success_threshold
          THEN /\ state' = "closed"
               /\ failure_count' = 0
               /\ success_count' = 0
               /\ half_open_calls' = 0
          ELSE /\ state' = "half_open"
               /\ success_count' = success_count + 1]_vars

\* The breaker closed on a half-open success.
C7_Witness ==
    /\ state = "closed"
    /\ outcome = "returned"
    /\ episode_successes >= 1
    /\ last_failure_time # NoneTime
    /\ failure_count = 0

\* C8: a failure while HALF_OPEN moves the breaker to OPEN in that step and sets
\* last_failure_time; it never closes it and never leaves it HALF_OPEN.
C8_HalfOpenFailureOpens ==
    [][\A c \in Callers, e \in ActionErrors : raises(c, e) /\ state = "half_open" =>
          /\ state' = "open"
          /\ last_failure_time' = now]_vars

\* The breaker is OPEN again after a half-open episode.
C8_Witness ==
    /\ state = "open"
    /\ half_open_calls >= 1
    /\ outcome \in ActionErrors
    /\ last_failure_time = now

\* C9: the breaker closes only after success_threshold successes inside the
\* current half-open episode; successes of an earlier episode do not count.
C9_ClosesOnEpisodeSuccesses ==
    [][state = "half_open" /\ state' = "closed" =>
          episode_successes' >= cb_config.success_threshold]_vars

\* The breaker is HALF_OPEN, nothing is in flight, and every call is rejected.
Trapped ==
    /\ state = "half_open"
    /\ InFlight = {}
    /\ call_gate(breaker, now, cb_config).verdict = "reject"

\* Once trapped, always trapped: no step of the breaker leaves the trap.
TrapIsPermanent == [][Trapped => Trapped']_vars

\* C10: the breaker has no terminal state: no reachable state rejects every
\* future call forever.  In a trapped state every call is rejected, nothing is in
\* flight to complete, the clock is not consulted (the state is not OPEN), and
\* by TrapIsPermanent no step leaves it: CLOSED is never reached again.
C10_NoTerminalState == ~Trapped


\* C13: an exception raised by func inside call() is counted as a failure
\* (failure_count incremented, last_failure_time set) and call() raises that same
\* exception; a call that invoked func ends by returning or by raising what
\* func raised, never by raising anything else.
C13_FailureCountedAndReraised ==
    [][\A c \in Callers :
         /\ \A e \in ActionErrors : raises(c, e) =>
                /\ failure_count' = failure_count + 1
                /\ last_failure_time' = now
                /\ outcome' = e
         /\ (pc[c] = "awaiting" /\ pc'[c] = "idle") =>
                \/ outcome' = "returned" /\ last_failure_time' = last_failure_time
                \/ /\ outcome' \in ActionErrors
                   /\ failure_count' = failure_count + 1
                   /\ last_failure_time' = now]_vars

\* A half-open probe raised: the failure was counted past failure_threshold.
C13_Witness ==
    /\ outcome \in ActionErrors
    /\ failure_count > cb_config.failure_threshold
    /\ last_failure_time = now
    /\ now > 1

\* ================================================================
\* Properties of generate_response (checked under SpecGC)
\* ================================================================
\* Tier d holds an entry for prompt hash k that is younger than the ttl.
Fresh(d, k) ==
    api_cache_key(k) \in DOMAIN d /\ now - d[api_cache_key(k)].timestamp < cache_ttl

\* The cache holds an unexpired entry for key k.
HoldsUnexpired(k) == Fresh(memory_cache, k) \/ Fresh(file_cache, k)

\* The cache holds nothing under either key of request req.
NoCachedValue(req) ==
    \A k \in {rate_limit_key(req), request_key(req)} :
        /\ api_cache_key(k) \notin DOMAIN memory_cache
        /\ api_cache_key(k) \notin DOMAIN file_cache

\* The limiter denies the call this step of task c makes for request req.
Denied(c, req) == generate_response(c, req) /\ ~decision'.allowed

\* The limiter allows the call this step of task c makes for request req.
Allowed(c, req) == generate_response(c, req) /\ decision'.allowed

\* The breaker, asked now, would reject.
BreakerRejects == call_gate(breaker, now, cb_config).verdict = "reject"

\* C14: when the limiter denies a request and the cache holds an unexpired entry
\* written by an earlier successful execution of that request,
\* generate_response returns that entry's value and does not invoke the API
\* call.  (The str it returns has no place for a degraded flag; the formula
\* asks for the value only.)
C14_DeniedServedFromCache ==
    [][\A c \in Tasks, req \in Requests :
         Denied(c, req) /\ HoldsUnexpired(request_key(req)) =>
            /\ gc_result' = Returned(Verbatim(latest_set[request_key(req)].data))
            /\ action_calls' = action_calls]_vars

\* C15: for one request, the key read when the limiter denies, the key read when
\* the breaker rejects and the key written after a successful call are one key.
C15_OneKeyPerRequest ==
    \A req \in Requests :
        Cardinality({keys_used[req].rate_limit, keys_used[req].circuit_open,
                     keys_used[req].written} \ {NoKey}) <= 1

\* A typed retryable error, as the specification words it.
RateLimitExceeded(retry_after) ==
    [kind |-> "raise",
     value |-> [fmt |-> "{}", arg |-> "RateLimitExceededError", n |-> retry_after]]

\* C16: when the limiter denies a request, or the breaker rejects it, and the
\* cache holds no value for it, generate_response raises a typed error
\* (RateLimitExceededError carrying retry_after, respectively
\* CircuitBreakerOpenError) and does not return a value.
C16_TypedErrorWithoutCache ==
    [][\A c \in Tasks, req \in Requests :
         /\ Denied(c, req) /\ NoCachedValue(req) =>
                gc_result' = RateLimitExceeded(decision'.retry_after)
         /\ Allowed(c, req) /\ BreakerRejects /\ NoCachedValue(req) =>
                gc_result' = Raised("CircuitBreakerOpenError")]_vars

\* C17: an exception raised by the API call reaches the caller of
\* generate_response as that exception, after the breaker's bookkeeping; it is
\* not turned into a returned value.
C17_ActionErrorSurfaced ==
    [][\A c \in Tasks, e \in ActionErrors :
         api_raises(c, e) =>
            /\ gc_result' = Raised(e)
            /\ failure_count' = failure_count + 1]_vars

C19_GetHonoursTtl ==
    [][\A k \in CacheKeys : cache_get(k) =>
         LET found  == get_result'.value # NoneValue
             is_set == k \in DOMAIN latest_set
         IN  /\ found => /\ is_set
                         /\ now - latest_set[k].timestamp < cache_ttl
                         /\ get_result'.value = latest_set[k].data
             /\ (is_set /\ now - latest_set[k].timestamp >= cache_ttl) =>
                    /\ ~found
                    /\ api_cache_key(k) \notin DOMAIN memory_cache'
                    /\ api_cache_key(k) \notin DOMAIN file_cache'
             /\ api_cache_key(k) \in DOMAIN memory_cache' =>
                    /\ is_set
                    /\ memory_cache'[api_cache_key(k)].timestamp = latest_set[k].timestamp]_vars

\* The keys that have an expired entry in some tier.
ExpiredEntries ==
    expired_keys(memory_cache, now, cache_ttl) \cup expired_keys(file_cache, now, cache_ttl)

\* C20: clear_expired_cache returns the number of expired keys it removed, each
\* counted once, removes every expired entry from both tiers and leaves every
\* other entry in place.
C20_SweepCountsEntries ==
    [][cache_sweep =>
         /\ cleared_count' = Cardinality(ExpiredEntries)
         /\ DOMAIN memory_cache' = (DOMAIN memory_cache) \ ExpiredEntries
         /\ DOMAIN file_cache' = (DOMAIN file_cache) \ ExpiredEntries
         /\ \A k \in DOMAIN memory_cache' : memory_cache'[k] = memory_cache[k]
         /\ \A k \in DOMAIN file_cache' : file_cache'[k] = file_cache[k]]_vars

\* ================================================================
\* Properties of the cache over a failing file system (checked under SpecIO)
\* ================================================================
\* C21: an I/O error of the file tier during get_api_response,
\* set_api_response or clear_expired_cache is never raised to the caller: the
\* operation returns, and a get that could not read the file returns None or
\* the unexpired value of the memory tier.
C21_DurableErrorsContained ==
    [][/\ \A k \in IOKeys, f \in Faults : io_get(k, f) =>
            /\ cache_error' = "none"
            /\ (f \in {"stat", "open", "read"} /\ get_result'.value # NoneValue) =>
                   /\ api_cache_key(k) \in DOMAIN memory_cache
                   /\ get_result'.value = memory_cache[api_cache_key(k)].data
       /\ \A k \in IOKeys, data \in Responses, f \in Faults : io_set(k, data, f) =>
            cache_error' = "none"
       /\ \A f \in Faults : io_sweep(f) => cache_error' = "none"]_vars

\* ================================================================
\* Properties of one cache file under threads (checked under SpecFW)
\* ================================================================
\* C22: with two threads writing one key and a third reading it, whatever
\* get_api_response returns is None or the complete entry of one
\* set_api_response, never a mixture of two writes.
C22_ReaderSeesOneWrite ==
    \/ fw_read = NoBlocks
    \/ \E w \in Writers : fw_read = Blocks(written_by(w))

\* ================================================================
\* Properties of the registry (checked under SpecREG)
\* ================================================================
\* The instances constructed for name n of dict d.
MadeFor(d, n) == {i \in DOMAIN reg_made : reg_made[i].dict = d /\ reg_made[i].name = n}

\* C23: however the threads' calls of get_rate_limiter / get_circuit_breaker
\* interleave, at most one instance is constructed per service name, with that
\* name's config (the defaults for a name without one), and every caller of a
\* name holds the instance the registry holds for it.
C23_OneInstancePerName ==
    \A d \in RegDicts, n \in ServiceNames :
        /\ Cardinality(MadeFor(d, n)) <= 1
        /\ \A i \in MadeFor(d, n) :
               reg_made[i].config = IF d = "rate_limiters" THEN get_rate_config(n)
                                    ELSE get_circuit_config(n)
        /\ \A t \in Threads :
               reg_got[t][d][n] # NoInstance => reg_got[t][d][n] = registry[d][n]

\* ================================================================
\* Properties of the circuit breaker under cancellation (checked under SpecCBX)
\* ================================================================
\* C24: a call whose action is cancelled updates the breaker as a failed call
\* does: failure_count is incremented, last_failure_time is set, the breaker is
\* OPEN once failure_count reaches failure_threshold, and a cancelled half-open
\* probe returns the breaker to OPEN.
C24_CancellationCountsAsFailure ==
    [][\A c \in Callers : cancelled(c) =>
          /\ failure_count' = failure_count + 1
          /\ last_failure_time' = now
          /\ failure_count + 1 >= cb_config.failure_threshold => state' = "open"
          /\ state = "half_open" => state' = "open"]_vars

\* ================================================================
\* Properties of the refill (checked under SpecRL and SpecRLP)
\* ================================================================
\* The bucket after _refill_tokens at time t, as the pair (tokens, last_refill).
Refilled(b, t) == <<refill_tokens(b[1], b[2], t, rl_config), t>>

\* C25: from every state of the limiter, refilling after d1 seconds and again
\* after d2 more leaves the token count that one refill after d1 + d2 seconds
\* leaves.
C25_RefillSplitInvariant ==
    \A d1 \in RLTickSteps, d2 \in RLTickSteps :
        Refilled(Refilled(<<tokens, last_refill>>, now + d1), now + d1 + d2)
            = Refilled(<<tokens, last_refill>>, now + d1 + d2)

\* ================================================================
\* Properties of a denied call (checked under SpecRL)
\* ================================================================
\* C26: a denied is_allowed call appends to neither window (each window is
\* what it was, less the entries older than its interval) and takes no token;
\* a denial on the minute or hour window also leaves tokens and last_refill
\* unchanged.
C26_DenialConsumesNothing ==
    [][\A cost \in 1..MaxCost : is_allowed(cost) /\ ~decision'.allowed =>
          /\ minute_requests' = SelectSeq(minute_requests, LAMBDA r : now - r < MinuteWindow)
          /\ hour_requests' = SelectSeq(hour_requests, LAMBDA r : now - r < HourWindow)
          /\ tokens' >= tokens
          /\ admitted' = admitted
          /\ decision'.reason \in {"minute_limit_exceeded", "hour_limit_exceeded"} =>
                 /\ tokens' = tokens
                 /\ last_refill' = last_refill
          /\ decision'.reason = "burst_limit_exceeded" =>
                 /\ tokens' < cost
                 /\ last_refill' = now]_vars

\* A call was denied on the minute window at a time when a refill was due:
\* the tokens and last_refill are those of the last admission.
C26_Witness ==
    /\ ~decision.allowed
    /\ decision.reason = "minute_limit_exceeded"
    /\ last_refill < now
    /\ refill_tokens(tokens, last_refill, now, rl_config) > tokens
    /\ Len(minute_requests) = rl_config.requests_per_minute
    /\ decision.retry_after = 60 - (now - SeqMin(minute_requests))

\* ================================================================
\* More properties of generate_response (checked under SpecGC)
\* ================================================================
\* C27: one generate_response makes the API call at most once, and only
\* through the breaker: the call is made in the step that enters
\* circuit_breaker.call with the breaker admitting it, and when the call
\* raises, whatever the error, generate_response ends without calling again.
C27_NoInternalRetry ==
    [][/\ action_calls' # action_calls =>
            /\ action_calls' = action_calls + 1
            /\ ~BreakerRejects
            /\ \E c \in Tasks, req \in Requests :
                   /\ generate_response(c, req)
                   /\ pc'[c] = "awaiting"
                   /\ gc_req'[c] = req
       /\ \A c \in Tasks, e \in ActionErrors : api_raises(c, e) =>
            /\ action_calls' = action_calls
            /\ pc'[c] = "idle"
            /\ gc_req'[c] = NoRequest
            /\ gc_result' = Returned(ErrorMessage(e))]_vars

\* ================================================================
\* The limiter polled at a fixed interval (checked under SpecRLP)
\* ================================================================
\* With no token left, a call made before a whole token has accrued since the
\* last refill is denied, leaves no token, and restarts the accrual.
StarvationPersists ==
    [][(/\ is_allowed(1)
        /\ tokens = 0
        /\ (now - last_refill) * rl_config.requests_per_minute < 60
        /\ Len(cleanup_old_requests(minute_requests, now, MinuteWindow))
              < rl_config.requests_per_minute
        /\ Len(cleanup_old_requests(hour_requests, now, HourWindow))
              < rl_config.requests_per_hour)
       => /\ ~decision'.allowed
          /\ decision'.reason = "burst_limit_exceeded"
          /\ tokens' = 0
          /\ last_refill' = now]_vars

\* C28: refill is continuous and a polling caller cannot starve it: once
\* 60 / requests_per_minute seconds have passed since the last admission a
\* whole token has accrued, so a call of cost 1 that finds both windows below
\* their limits is not denied for lack of tokens, however often the caller
\* asked in between.  (A call denied that late is, by StarvationPersists, denied
\* at every later poll of the same interval: the caller is never admitted
\* again.)
C28_PollingCallerIsAdmitted ==
    (/\ decision.reason = "burst_limit_exceeded"
     /\ last_refill = now
     /\ admitted # <<>>)
        => (now - admitted[Len(admitted)]) * rl_config.requests_per_minute < 60

\* ================================================================
\* More properties of the breaker (checked under SpecCB)
\* ================================================================
\* C29: only calls admitted as half-open probes drive the half-open
\* bookkeeping: when a call admitted while the breaker was CLOSED returns while
\* the breaker is HALF_OPEN, success_count is not incremented and the breaker
\* stays HALF_OPEN.
C29_OnlyProbesDriveHalfOpen ==
    [][\A c \in Callers :
         (returns(c) /\ state = "half_open" /\ admitted_in[c] = "closed") =>
            /\ success_count' = success_count
            /\ state' = "half_open"]_vars

\* ================================================================
\* What generate_response writes to the cache (checked under SpecGC)
\* ================================================================
\* The step puts entry en under key k: en is there after the step, in the
\* memory tier or the file tier, and was in neither tier before it.
EntersCache(k, en) ==
    /\ \/ k \in DOMAIN memory_cache' /\ memory_cache'[k] = en
       \/ k \in DOMAIN file_cache' /\ file_cache'[k] = en
    /\ ~(k \in DOMAIN memory_cache /\ memory_cache[k] = en)
    /\ ~(k \in DOMAIN file_cache /\ file_cache[k] = en)

\* The entries of both tiers under key k after the step.
EntriesAfter(k) ==
    {memory_cache'[x] : x \in {k} \cap DOMAIN memory_cache'}
        \cup {file_cache'[x] : x \in {k} \cap DOMAIN file_cache'}

\* C30: the cache holds only values a successful API call returned.  The cache
\* starts empty, and every entry that enters it does so in the step in which
\* an API call of generate_response returns: its data is the text the call
\* returned, its key the key of that request, and that text is what
\* generate_response returns.  No step that ends with a rate-limit, circuit-open
\* or error message, or that serves a cached value, puts an entry in the cache.
C30_OnlyApiAnswersCached ==
    [][\A k \in (DOMAIN memory_cache') \cup (DOMAIN file_cache') :
         \A en \in EntriesAfter(k) : EntersCache(k, en) =>
            /\ en.data \in Responses
            /\ en.timestamp = now
            /\ \E c \in Tasks :
                   /\ api_returns(c, en.data) \/ direct_returns(c, en.data)
                   /\ k = api_cache_key(request_key(gc_req[c]))
                   /\ gc_result' = Returned(Verbatim(en.data))]_vars

\* generate_response ended with an error message after an API call raised,
\* while both tiers hold an entry.
C30_Witness ==
    /\ \E e \in ActionErrors : gc_result = Returned(ErrorMessage(e))
    /\ outcome \in ActionErrors
    /\ memory_cache # EmptyDict
    /\ file_cache # EmptyDict

====
